---------------------------- MODULE Spec2Model ----------------------------
(***************************************************************************)
(* Product entity factory (createProduct, in its two source variants) and  *)
(* the CosmosProductRepo storage adapter over a Cosmos container.          *)
(*                                                                         *)
(* JavaScript values are tagged records, so that typeof, === and property  *)
(* reads are computed as the runtime computes them.  Strings are sequences *)
(* of one-character strings, so that trim() and the ISO date format are    *)
(* computed character by character.                                        *)
(***************************************************************************)
EXTENDS Integers, Sequences, FiniteSets, TLC

VARIABLES
    fcall,      \* the last createProduct call: variant, props, clock, result
    container,  \* the Cosmos container: the set of stored documents
    calls,      \* per caller: the repository call it has in flight or finished
    applied,    \* history: per id, the product of the last upsert applied, or
                \* null once a delete was applied after it, or undefined
    ncalls      \* number of repository calls invoked so far

vars == <<fcall, container, calls, applied, ncalls>>

(***************************************************************************)
(* Bounds of the model.                                                    *)
(***************************************************************************)
MaxStrLen == 2      \* longest id / name string supplied to createProduct
MaxTime == 1        \* instants are 0 .. MaxTime milliseconds
MaxCalls == 3       \* repository calls invoked in one behaviour

(***************************************************************************)
(* JavaScript values.                                                      *)
(***************************************************************************)
Undefined == [t |-> "undefined"]
Null == [t |-> "null"]
Str(s) == [t |-> "string", s |-> s]
Num(n) == [t |-> "number", k |-> "finite", n |-> n]
NaN == [t |-> "number", k |-> "NaN"]
PosInfinity == [t |-> "number", k |-> "+Infinity"]
NegInfinity == [t |-> "number", k |-> "-Infinity"]
DateOf(ms) == [t |-> "Date", valid |-> TRUE, ms |-> ms]
InvalidDate == [t |-> "Date", valid |-> FALSE]

\* obj.f : a property read; a property the object lacks reads as undefined.
Get(obj, f) == IF f \in DOMAIN obj THEN obj[f] ELSE Undefined

\* typeof v
typeOf(v) ==
    CASE v.t = "string" -> "string"
      [] v.t = "number" -> "number"
      [] v.t = "undefined" -> "undefined"
      [] OTHER -> "object"

Whitespace == {" "}

RECURSIVE trimStart(_)
trimStart(s) ==
    IF s # <<>> /\ Head(s) \in Whitespace THEN trimStart(Tail(s)) ELSE s

RECURSIVE trimEnd(_)
trimEnd(s) ==
    IF s # <<>> /\ s[Len(s)] \in Whitespace
    THEN trimEnd(SubSeq(s, 1, Len(s) - 1))
    ELSE s

\* String.prototype.trim
trim(s) == trimEnd(trimStart(s))

(***************************************************************************)
(* Validators.                                                             *)
(***************************************************************************)
\* A length check without the trim.
isNonEmptyString_NoTrim(v) == typeOf(v) = "string" /\ Len(v.s) > 0

isNonEmptyString(v) == typeOf(v) = "string" /\ Len(trim(v.s)) > 0

\* Number.isFinite(v) for a value of type number
isFinite(v) == v.k = "finite"

isNonNegativeNumber(v) == typeOf(v) = "number" /\ isFinite(v) /\ v.n >= 0

\* v instanceof Date && !Number.isNaN(v.getTime()) ? v : undefined
toDateOrUndefined(v) == IF v.t = "Date" /\ v.valid THEN v ELSE Undefined

\* a ?? b
Coalesce(a, b) == IF a = Undefined \/ a = Null THEN b ELSE a

ErrId == "id is required and must be a non-empty string"
ErrName == "name is required and must be a non-empty string"
ErrPrice == "price is required and must be a non-negative number"
ErrDescription == "description, if provided, must be a string"
ErrCategory == "category, if provided, must be a string"

\* A fail-fast validator: it stops at the first violated rule.
validationErrors_FailFast(props) ==
    IF ~isNonEmptyString(props.id) THEN <<ErrId>>
    ELSE IF ~isNonEmptyString(props.name) THEN <<ErrName>>
    ELSE IF ~isNonNegativeNumber(props.price) THEN <<ErrPrice>>
    ELSE IF props.description # Undefined /\ typeOf(props.description) # "string"
    THEN <<ErrDescription>>
    ELSE IF props.category # Undefined /\ typeOf(props.category) # "string"
    THEN <<ErrCategory>>
    ELSE <<>>

\* The errors array after the five checks, pushed in source order.
validationErrors(props) ==
    (IF ~isNonEmptyString(props.id) THEN <<ErrId>> ELSE <<>>)
    \o (IF ~isNonEmptyString(props.name) THEN <<ErrName>> ELSE <<>>)
    \o (IF ~isNonNegativeNumber(props.price) THEN <<ErrPrice>> ELSE <<>>)
    \o (IF props.description # Undefined /\ typeOf(props.description) # "string"
        THEN <<ErrDescription>> ELSE <<>>)
    \o (IF props.category # Undefined /\ typeOf(props.category) # "string"
        THEN <<ErrCategory>> ELSE <<>>)

(***************************************************************************)
(* createProduct, the variant with price / category / createdAt.           *)
(* now is the value of new Date() at the call.                             *)
(***************************************************************************)
createProduct(props, now) ==
    LET errors == validationErrors(props)
        createdAt == Coalesce(toDateOrUndefined(props.createdAt), DateOf(now))
        updatedAt == Coalesce(toDateOrUndefined(props.updatedAt), createdAt)
    IN  IF Len(errors) > 0
        THEN [success |-> FALSE, errors |-> errors]
        ELSE [success |-> TRUE,
              product |-> [id |-> props.id,
                           name |-> props.name,
                           price |-> props.price,
                           description |-> props.description,
                           category |-> props.category,
                           createdAt |-> createdAt,
                           updatedAt |-> updatedAt]]

(***************************************************************************)
(* createProduct, the variant of domain/product.ts, whose Product has      *)
(* pricePence and neither category nor createdAt.                          *)
(***************************************************************************)
createProductPence(props, now) ==
    LET errors == validationErrors(props)
        createdAt == Coalesce(toDateOrUndefined(props.createdAt), DateOf(now))
        updatedAt == Coalesce(toDateOrUndefined(props.updatedAt), createdAt)
    IN  IF Len(errors) > 0
        THEN [success |-> FALSE, errors |-> errors]
        ELSE [success |-> TRUE,
              product |-> [id |-> props.id,
                           name |-> props.name,
                           pricePence |-> props.price,
                           description |-> props.description,
                           updatedAt |-> updatedAt]]

(***************************************************************************)
(* Inputs of the factory.                                                  *)
(***************************************************************************)
Alphabet == {"a", " "}

RECURSIVE StringsUpTo(_)
StringsUpTo(n) ==
    IF n = 0 THEN {<<>>}
    ELSE LET shorter == StringsUpTo(n - 1)
         IN  shorter \cup {Append(s, c) : s \in shorter, c \in Alphabet}

Times == 0 .. MaxTime

TextInputs == {Str(s) : s \in StringsUpTo(MaxStrLen)} \cup {Undefined, Num(1)}
PriceInputs ==
    {Undefined, NaN, PosInfinity, NegInfinity, Num(-1), Num(0), Num(1),
     Str(<<"1">>)}
DateInputs == {Undefined, InvalidDate, Str(<<"a">>)} \cup {DateOf(m) : m \in Times}

PropsInputs ==
    [id : TextInputs, name : TextInputs, price : PriceInputs,
     description : {Undefined, Str(<<>>), Num(0)},
     category : {Undefined, Str(<<"a">>), Null},
     createdAt : DateInputs, updatedAt : DateInputs]

NoCall == [variant |-> "none"]

(***************************************************************************)
(* Factory calls.                                                          *)
(***************************************************************************)
CallCreateProduct ==
    /\ fcall = NoCall
    /\ \E props \in PropsInputs, now \in Times :
         fcall' = [variant |-> "price", props |-> props, now |-> now,
                   result |-> createProduct(props, now)]
    /\ UNCHANGED <<container, calls, applied, ncalls>>

CallCreateProductPence ==
    /\ fcall = NoCall
    /\ \E props \in PropsInputs, now \in Times :
         fcall' = [variant |-> "pricePence", props |-> props, now |-> now,
                   result |-> createProductPence(props, now)]
    /\ UNCHANGED <<container, calls, applied, ncalls>>

(***************************************************************************)
(* Dates in storage: Date.prototype.toISOString and new Date(string), for  *)
(* instants within the first second of the epoch.                          *)
(***************************************************************************)
IsoPrefix ==
    <<"1", "9", "7", "0", "-", "0", "1", "-", "0", "1", "T",
      "0", "0", ":", "0", "0", ":", "0", "0", ".">>
Digits == <<"0", "1", "2", "3", "4", "5", "6", "7", "8", "9">>
DigitChar(n) == Digits[n + 1]
IsDigit(c) == \E n \in 0 .. 9 : Digits[n + 1] = c
DigitVal(c) == CHOOSE n \in 0 .. 9 : Digits[n + 1] = c

\* d.toISOString(), d a valid Date
toISOString(d) ==
    Str(IsoPrefix
        \o <<DigitChar((d.ms \div 100) % 10), DigitChar((d.ms \div 10) % 10),
             DigitChar(d.ms % 10)>>
        \o <<"Z">>)

\* new Date(v)
newDate(v) ==
    IF /\ v.t = "string"
       /\ Len(v.s) = Len(IsoPrefix) + 4
       /\ SubSeq(v.s, 1, Len(IsoPrefix)) = IsoPrefix
       /\ \A i \in 1 .. 3 : IsDigit(v.s[Len(IsoPrefix) + i])
       /\ v.s[Len(v.s)] = "Z"
    THEN DateOf(100 * DigitVal(v.s[Len(IsoPrefix) + 1])
                + 10 * DigitVal(v.s[Len(IsoPrefix) + 2])
                + DigitVal(v.s[Len(IsoPrefix) + 3]))
    ELSE InvalidDate

(***************************************************************************)
(* CosmosProductRepo: the two conversions.                                 *)
(***************************************************************************)
\* A DTO keyed by the wrong property.
toDTO_WrongKey(product) ==
    [id |-> Get(product, "name"),
     name |-> Get(product, "name"),
     pricePence |-> Get(product, "pricePence"),
     description |-> Get(product, "description"),
     updatedAt |-> toISOString(product.updatedAt)]

\* A DTO that forgets a property.
toDTO_DropName(product) ==
    [id |-> Get(product, "id"),
     pricePence |-> Get(product, "pricePence"),
     description |-> Get(product, "description"),
     updatedAt |-> toISOString(product.updatedAt)]

toDTO(product) ==
    [id |-> Get(product, "id"),
     name |-> Get(product, "name"),
     pricePence |-> Get(product, "pricePence"),
     description |-> Get(product, "description"),
     updatedAt |-> toISOString(product.updatedAt)]

\* A conversion that spreads the stored record into the entity.
toDomain_Spread(dto) ==
    [k \in DOMAIN dto \cup {"id", "name", "pricePence", "description", "updatedAt"}
        |-> IF k = "updatedAt" THEN newDate(Get(dto, "updatedAt"))
            ELSE Get(dto, k)]

toDomain(dto) ==
    [id |-> Get(dto, "id"),
     name |-> Get(dto, "name"),
     pricePence |-> Get(dto, "pricePence"),
     description |-> Get(dto, "description"),
     updatedAt |-> newDate(Get(dto, "updatedAt"))]

(***************************************************************************)
(* The Cosmos container, as the adapter uses it.                           *)
(***************************************************************************)
\* The request body as JSON: a property whose value is undefined is omitted.
Json(body) ==
    [k \in {f \in DOMAIN body : body[f] # Undefined} |-> body[k]]

\* System properties the service attaches to a stored document.
Metas ==
    {[_etag |-> Str(<<"a">>), _ts |-> Num(0)],
     [_etag |-> Str(<<"a", "a">>), _ts |-> Num(1)]}
MetadataFields == {"_etag", "_ts"}

Document(body, meta) ==
    [k \in DOMAIN Json(body) \cup DOMAIN meta |->
        IF k \in DOMAIN meta THEN meta[k] ELSE body[k]]

ItemsWithId(items, id) == {d \in items : Get(d, "id") = id}

Orderings(S) ==
    {q \in [1 .. Cardinality(S) -> S] :
        \A i, j \in 1 .. Cardinality(S) : i # j => q[i] # q[j]}

\* What the SDK throws.
Err404Code == [code |-> Num(404)]
Err404Status == [statusCode |-> Num(404)]
Err500 == [code |-> Num(500), statusCode |-> Num(500)]
ErrNetwork == [code |-> Str(<<"E">>)]
NotFoundErrors == {Err404Code, Err404Status}
OtherErrors == {Err500, ErrNetwork}

Ok(resource) == [ok |-> TRUE, resource |-> resource]
Thrown(err) == [ok |-> FALSE, err |-> err]

(***************************************************************************)
(* CosmosProductRepo: what each method does with the awaited response.     *)
(***************************************************************************)
Return(value) == [kind |-> "return", value |-> value]
Throw(err) == [kind |-> "throw", err |-> err]

\* err?.code === 404 || err?.statusCode === 404
isNotFound(err) ==
    Get(err, "code") = Num(404) \/ Get(err, "statusCode") = Num(404)

\* A catch block that turns every error into null.
getByIdOutcome_SwallowAll(resp) ==
    IF resp.ok /\ resp.resource # Undefined
    THEN Return(toDomain(resp.resource))
    ELSE Return(Null)

getByIdOutcome(resp) ==
    IF resp.ok
    THEN IF resp.resource = Undefined
         THEN Return(Null)
         ELSE Return(toDomain(resp.resource))
    ELSE IF isNotFound(resp.err) THEN Return(Null) ELSE Throw(resp.err)

listOutcome(resp) ==
    IF resp.ok
    THEN Return([i \in 1 .. Len(resp.resource) |-> toDomain(resp.resource[i])])
    ELSE Throw(resp.err)

saveOutcome(product, resp) ==
    IF resp.ok
    THEN IF resp.resource = Undefined
         THEN Return(product)
         ELSE Return(toDomain(resp.resource))
    ELSE Throw(resp.err)

\* A delete with no catch block.
deleteOutcome_NoCatch(resp) ==
    IF resp.ok THEN Return(Undefined) ELSE Throw(resp.err)

deleteOutcome(resp) ==
    IF resp.ok
    THEN Return(Undefined)
    ELSE IF isNotFound(resp.err) THEN Return(Undefined) ELSE Throw(resp.err)

(***************************************************************************)
(* Entities handed to the repository: products of both factories.          *)
(***************************************************************************)
IdA == Str(<<"a">>)
IdB == Str(<<"a", "a">>)
RepoIds == {IdA, IdB}

RepoProps ==
    {[id |-> IdA, name |-> Str(<<"a", " ">>), price |-> Num(1),
      description |-> Undefined, category |-> Undefined,
      createdAt |-> Undefined, updatedAt |-> Undefined],
     [id |-> IdA, name |-> Str(<<" ", "a">>), price |-> Num(0),
      description |-> Str(<<"a">>), category |-> Str(<<"a">>),
      createdAt |-> DateOf(0), updatedAt |-> DateOf(MaxTime)],
     [id |-> IdB, name |-> Str(<<"a", " ">>), price |-> Num(1),
      description |-> Str(<<>>), category |-> Undefined,
      createdAt |-> Undefined, updatedAt |-> DateOf(0)]}

Pool ==
    {createProduct(props, MaxTime).product : props \in RepoProps}
    \cup {createProductPence(props, MaxTime).product : props \in RepoProps}

(***************************************************************************)
(* Repository calls.  A call is invoked (the method runs to its await and  *)
(* the request is issued), the container serves the request, and the       *)
(* method resumes with the response.                                       *)
(***************************************************************************)
Callers == {"c1", "c2"}
Idle == [pc |-> "idle"]
Free(c) == calls[c].pc \in {"idle", "done"}
InFlight(c) == calls[c].pc \in {"awaiting", "responded"}

Invoked(op, arg, reqs, conc) ==
    [pc |-> "awaiting", op |-> op, arg |-> arg, reqs |-> reqs,
     resp |-> Undefined, result |-> Undefined, seen |-> Undefined,
     conc |-> conc]

Invoke(c, op, arg, reqs) ==
    /\ Free(c)
    /\ ncalls < MaxCalls
    /\ ncalls' = ncalls + 1
    /\ LET rivals ==
            IF op = "save"
            THEN {o \in Callers \ {c} :
                    /\ InFlight(o) /\ calls[o].op = "save"
                    /\ calls[o].arg.id = arg.id}
            ELSE {}
       IN  calls' = [o \in Callers |->
                       IF o = c THEN Invoked(op, arg, reqs, rivals # {})
                       ELSE IF o \in rivals
                            THEN [calls[o] EXCEPT !.conc = TRUE]
                            ELSE calls[o]]
    /\ UNCHANGED <<fcall, container, applied>>

InvokeGetById(c) ==
    \E id \in RepoIds :
        Invoke(c, "getById", id, <<[kind |-> "read", id |-> id]>>)

InvokeList(c) == Invoke(c, "list", Undefined, <<[kind |-> "readAll"]>>)

InvokeSave(c) ==
    \E product \in Pool :
        Invoke(c, "save", product,
               <<[kind |-> "upsert", body |-> toDTO(product)]>>)

InvokeDelete(c) ==
    \E id \in RepoIds :
        Invoke(c, "delete", id, <<[kind |-> "delete", id |-> id]>>)

Awaiting(c, kind) ==
    /\ calls[c].pc = "awaiting"
    /\ calls[c].reqs[Len(calls[c].reqs)].kind = kind

Request(c) == calls[c].reqs[Len(calls[c].reqs)]

Respond(c, resp, seen) ==
    calls' = [calls EXCEPT ![c].pc = "responded", ![c].resp = resp,
                           ![c].seen = seen]

\* container.item(id).read()
CosmosRead(c) ==
    /\ Awaiting(c, "read")
    /\ LET found == ItemsWithId(container, Request(c).id)
       IN  \/ \E d \in found : Respond(c, Ok(d), applied[Request(c).id])
           \/ /\ found = {}
              /\ \E resp \in {Ok(Undefined)} \cup {Thrown(e) : e \in NotFoundErrors} :
                    Respond(c, resp, applied[Request(c).id])
    /\ UNCHANGED <<fcall, container, applied, ncalls>>

\* container.items.readAll().fetchAll()
CosmosReadAll(c) ==
    /\ Awaiting(c, "readAll")
    /\ \E q \in Orderings(container) : Respond(c, Ok(q), applied)
    /\ UNCHANGED <<fcall, container, applied, ncalls>>

\* container.items.upsert(body)
CosmosUpsert(c) ==
    /\ Awaiting(c, "upsert")
    /\ \E meta \in Metas :
         LET body == Request(c).body
             doc == Document(body, meta)
         IN  /\ container' =
                   (container \ ItemsWithId(container, Get(body, "id")))
                   \cup {doc}
             /\ \E resource \in {doc, Undefined} :
                   Respond(c, Ok(resource), applied[calls[c].arg.id])
    /\ applied' = [applied EXCEPT ![calls[c].arg.id] = calls[c].arg]
    /\ UNCHANGED <<fcall, ncalls>>

\* container.item(id).delete()
CosmosDelete(c) ==
    /\ Awaiting(c, "delete")
    /\ LET found == ItemsWithId(container, Request(c).id)
       IN  /\ container' = container \ found
           /\ IF found = {}
              THEN \E e \in NotFoundErrors :
                      Respond(c, Thrown(e), applied[Request(c).id])
              ELSE Respond(c, Ok(Undefined), applied[Request(c).id])
    /\ applied' = [applied EXCEPT ![Request(c).id] = Null]
    /\ UNCHANGED <<fcall, ncalls>>

\* Any request may fail for a reason other than absence; it then has no effect.
CosmosFail(c) ==
    /\ calls[c].pc = "awaiting"
    /\ \E e \in OtherErrors : Respond(c, Thrown(e), Undefined)
    /\ UNCHANGED <<fcall, container, applied, ncalls>>

Resume(c, op, result) ==
    /\ calls[c].pc = "responded"
    /\ calls[c].op = op
    /\ calls' = [calls EXCEPT ![c].pc = "done", ![c].result = result]
    /\ UNCHANGED <<fcall, container, applied, ncalls>>

ResumeGetById(c) == Resume(c, "getById", getByIdOutcome(calls[c].resp))
ResumeList(c) == Resume(c, "list", listOutcome(calls[c].resp))
ResumeSave(c) == Resume(c, "save", saveOutcome(calls[c].arg, calls[c].resp))
ResumeDelete(c) == Resume(c, "delete", deleteOutcome(calls[c].resp))

Init ==
    /\ fcall = NoCall
    /\ container = {}
    /\ calls = [c \in Callers |-> Idle]
    /\ applied = [id \in RepoIds |-> Undefined]
    /\ ncalls = 0

NextFactory == CallCreateProduct \/ CallCreateProductPence

SpecFactory == Init /\ [][NextFactory]_vars

Next ==
    \E c \in Callers :
        \/ InvokeGetById(c)
        \/ InvokeList(c)
        \/ InvokeSave(c)
        \/ InvokeDelete(c)
        \/ CosmosRead(c)
        \/ CosmosReadAll(c)
        \/ CosmosUpsert(c)
        \/ CosmosDelete(c)
        \/ CosmosFail(c)
        \/ ResumeGetById(c)
        \/ ResumeList(c)
        \/ ResumeSave(c)
        \/ ResumeDelete(c)

Spec == Init /\ [][Next]_vars

(***************************************************************************)
(* The five validation rules, stated on the values themselves.             *)
(***************************************************************************)
HasVisibleChar(v) ==
    v.t = "string" /\ \E i \in 1 .. Len(v.s) : v.s[i] \notin Whitespace
RuleId(props) == HasVisibleChar(props.id)
RuleName(props) == HasVisibleChar(props.name)
RulePrice(props) ==
    props.price.t = "number" /\ props.price.k = "finite" /\ props.price.n >= 0
RuleDescription(props) ==
    props.description = Undefined \/ props.description.t = "string"
RuleCategory(props) ==
    props.category = Undefined \/ props.category.t = "string"
AllRules(props) ==
    /\ RuleId(props) /\ RuleName(props) /\ RulePrice(props)
    /\ RuleDescription(props) /\ RuleCategory(props)
IsValidDate(v) == v.t = "Date" /\ v.valid

Called == fcall # NoCall

\* C1: createProduct returns success exactly when all five rules hold; in
\* every other case (id or name missing, empty or whitespace-only, price
\* missing, NaN, infinite or negative, ...) it returns a failure that carries
\* errors and no product at all.
C1_SuccessIffAllRules ==
    Called =>
        /\ fcall.result.success <=> AllRules(fcall.props)
        /\ fcall.result.success => "product" \in DOMAIN fcall.result
        /\ ~fcall.result.success =>
              /\ "product" \notin DOMAIN fcall.result
              /\ Len(fcall.result.errors) > 0

C1_Witness ==
    /\ Called
    /\ fcall.props.id = Str(<<" ", " ">>)
    /\ RuleName(fcall.props) /\ RulePrice(fcall.props)
    /\ RuleDescription(fcall.props) /\ RuleCategory(fcall.props)
    /\ ~fcall.result.success

\* The messages of the violated rules, in the order id, name, price,
\* description, category.
ExpectedErrors(props) ==
    LET rules == <<RuleId(props), RuleName(props), RulePrice(props),
                   RuleDescription(props), RuleCategory(props)>>
        msgs == <<ErrId, ErrName, ErrPrice, ErrDescription, ErrCategory>>
        F[i \in 0 .. 5] ==
            IF i = 0 THEN <<>>
            ELSE IF rules[i] THEN F[i - 1] ELSE Append(F[i - 1], msgs[i])
    IN  F[5]

\* C2: validation is not fail-fast: a failure lists exactly one message per
\* violated rule, none for a satisfied rule, in the order id, name, price,
\* description, category; a call with no violated rule is a success.
C2_AllViolationsInOrder ==
    Called =>
        IF fcall.result.success
        THEN ExpectedErrors(fcall.props) = <<>>
        ELSE fcall.result.errors = ExpectedErrors(fcall.props)

C2_Witness ==
    /\ Called
    /\ fcall.props.id = Str(<<>>)
    /\ fcall.props.name = Str(<<"a">>)
    /\ fcall.props.price = Num(-1)
    /\ ~fcall.result.success
    /\ fcall.result.errors = <<ErrId, ErrPrice>>

SuppliedFields == {"id", "name", "price", "description", "category"}

\* C3: for every input that passes validation, the returned entity carries
\* id, name, price, description and category exactly as supplied, together
\* with a createdAt and an updatedAt.
C3_EntityCarriesSuppliedFields ==
    (Called /\ fcall.result.success) =>
        /\ \A f \in SuppliedFields :
              Get(fcall.result.product, f) = fcall.props[f]
        /\ IsValidDate(Get(fcall.result.product, "createdAt"))
        /\ IsValidDate(Get(fcall.result.product, "updatedAt"))

\* C3 restricted to the variant whose Product has price and category.
C3_PriceVariantCarriesSuppliedFields ==
    (Called /\ fcall.variant = "price") => C3_EntityCarriesSuppliedFields

\* C4: for every valid input, createdAt is the supplied createdAt when that
\* is a valid date and otherwise the call time, and updatedAt is the supplied
\* updatedAt when that is a valid date and otherwise the entity's createdAt.
C4_TimestampDefaults ==
    (Called /\ fcall.result.success) =>
        LET p == fcall.result.product
            createdAt == Get(p, "createdAt")
        IN  /\ createdAt = IF IsValidDate(fcall.props.createdAt)
                           THEN fcall.props.createdAt
                           ELSE DateOf(fcall.now)
            /\ Get(p, "updatedAt") = IF IsValidDate(fcall.props.updatedAt)
                                     THEN fcall.props.updatedAt
                                     ELSE createdAt

\* C4 restricted to the variant whose Product has createdAt.
C4_PriceVariantTimestampDefaults ==
    (Called /\ fcall.variant = "price") => C4_TimestampDefaults

\* In the pricePence variant updatedAt still defaults as described, from a
\* createdAt that is computed and then left out of the entity.
C4_PenceVariantUpdatedAt ==
    (Called /\ fcall.variant = "pricePence" /\ fcall.result.success) =>
        LET p == fcall.result.product
        IN  /\ "createdAt" \notin DOMAIN p
            /\ p.updatedAt =
                 IF IsValidDate(fcall.props.updatedAt)
                 THEN fcall.props.updatedAt
                 ELSE IF IsValidDate(fcall.props.createdAt)
                      THEN fcall.props.createdAt
                      ELSE DateOf(fcall.now)

(***************************************************************************)
(* Repository claims.  calls[c].seen is what the history held for the      *)
(* request's id (for list: for every id) when the container served it.     *)
(***************************************************************************)
DomainFields ==
    {"id", "name", "price", "description", "category", "createdAt", "updatedAt"}
PersistedFields == {"id", "name", "pricePence", "description", "updatedAt"}
EntityFields == DomainFields \cup PersistedFields

Done(c, op) == calls[c].pc = "done" /\ calls[c].op = op
Returned(c, op) == Done(c, op) /\ calls[c].result.kind = "return"
IsProduct(v) == v \notin {Undefined, Null}
Live(hist) == {id \in RepoIds : IsProduct(hist[id])}

\* The stored record d holds the persisted fields of product p, all of them.
RecordOf(d, p) ==
    /\ \A f \in PersistedFields \ {"updatedAt"} : Get(d, f) = Get(p, f)
    /\ newDate(Get(d, "updatedAt")) = p.updatedAt

\* The entity e is the conversion of the stored record d.
BuiltFromRecord(e, d) ==
    /\ DOMAIN e = PersistedFields
    /\ \A f \in PersistedFields \ {"updatedAt"} : e[f] = Get(d, f)
    /\ e.updatedAt = newDate(Get(d, "updatedAt"))

\* C5: save(p) followed, with no save or delete of p.id applied in between,
\* by getById(p.id) yields an entity equal to p in id, name, price,
\* description, category, createdAt and updatedAt.
C5_RoundTripAllFields ==
    \A c \in Callers :
        (Returned(c, "getById") /\ IsProduct(calls[c].seen)) =>
            \A f \in DomainFields :
                Get(calls[c].result.value, f) = Get(calls[c].seen, f)

\* The round trip on the fields the adapter's Product type has.
C5_RoundTripPersistedFields ==
    \A c \in Callers :
        (Returned(c, "getById") /\ IsProduct(calls[c].seen)) =>
            \A f \in PersistedFields :
                Get(calls[c].result.value, f) = Get(calls[c].seen, f)

\* C6, in every state: a delete fails only when the container raised
\* something other than not-found; once a delete was applied the id is not
\* stored, and a getById served then returns null.
C6_DeleteState ==
    /\ \A c \in Callers :
          /\ (Done(c, "delete")
                /\ (calls[c].resp.ok \/ calls[c].resp.err \notin OtherErrors))
             => calls[c].result = Return(Undefined)
          /\ (Done(c, "getById") /\ calls[c].seen = Null
                /\ (calls[c].resp.ok \/ calls[c].resp.err \notin OtherErrors))
             => calls[c].result = Return(Null)
    /\ \A id \in RepoIds :
          applied[id] = Null => ItemsWithId(container, id) = {}

\* C6, in every step: a delete that the container serves leaves no record of
\* that id, touches no other record, and changes nothing when the id was
\* not stored.
C6_DeleteStep ==
    \A c \in Callers :
        (/\ calls[c].pc = "awaiting" /\ calls[c].op = "delete"
         /\ calls'[c].pc = "responded"
         /\ (calls'[c].resp.ok \/ calls'[c].resp.err \notin OtherErrors))
        => /\ ItemsWithId(container', calls[c].arg) = {}
           /\ container' = container \ ItemsWithId(container, calls[c].arg)
           /\ ItemsWithId(container, calls[c].arg) = {} => container' = container

\* C6: delete is idempotent: it completes without error whether or not the
\* id is stored, a getById served after it returns absent, and a second
\* delete completes without error and leaves the store unchanged.
C6_DeleteIdempotent == []C6_DeleteState /\ [][C6_DeleteStep]_vars

\* A second delete of an id, answered with not-found, has returned normally.
C6_Witness ==
    \E c \in Callers :
        /\ Done(c, "delete")
        /\ calls[c].seen = Null
        /\ calls[c].resp = Thrown(Err404Code)
        /\ calls[c].result = Return(Undefined)

\* A not-found signal, read off the error value.
NotFoundSignal(err) ==
    \/ ("code" \in DOMAIN err /\ err.code = Num(404))
    \/ ("statusCode" \in DOMAIN err /\ err.statusCode = Num(404))

\* C7: a not-found signal (no resource, or a 404 error) makes getById return
\* null and delete return normally; every other failure raised during
\* getById, list, save or delete reaches the caller as that same error.
C7_ErrorMapping ==
    \A c \in Callers :
        calls[c].pc = "done" =>
            LET resp == calls[c].resp
                result == calls[c].result
            IN  /\ (~resp.ok /\ ~NotFoundSignal(resp.err))
                      => result = Throw(resp.err)
                /\ (calls[c].op = "getById" /\ resp.ok /\ resp.resource = Undefined)
                      => result = Return(Null)
                /\ (calls[c].op = "getById" /\ ~resp.ok /\ NotFoundSignal(resp.err))
                      => result = Return(Null)
                /\ (calls[c].op = "delete" /\ ~resp.ok /\ NotFoundSignal(resp.err))
                      => result = Return(Undefined)

C7_Witness ==
    /\ \E c \in Callers :
          /\ Done(c, "getById")
          /\ calls[c].resp = Thrown(ErrNetwork)
          /\ calls[c].result = Throw(ErrNetwork)
    /\ \E c \in Callers :
          /\ Done(c, "delete")
          /\ calls[c].resp = Thrown(Err404Status)
          /\ calls[c].result = Return(Undefined)

\* C8: the store holds at most one record per id, the record of the product
\* most recently saved under that id and not deleted since, and no other
\* record; getById returns that record's entity (null when there is none)
\* and list returns exactly the entities of all such records.
C8_UpsertKeyedById ==
    /\ \A id \in RepoIds :
          LET found == ItemsWithId(container, id)
          IN  IF IsProduct(applied[id])
              THEN /\ Cardinality(found) = 1
                   /\ \A d \in found : RecordOf(d, applied[id])
              ELSE found = {}
    /\ Cardinality(container) = Cardinality(Live(applied))
    /\ \A c \in Callers :
          /\ Returned(c, "getById") =>
                IF IsProduct(calls[c].seen)
                THEN \A f \in PersistedFields :
                        Get(calls[c].result.value, f) = Get(calls[c].seen, f)
                ELSE calls[c].result.value = Null
          /\ Returned(c, "list") =>
                LET value == calls[c].result.value
                    hist == calls[c].seen
                IN  /\ Len(value) = Cardinality(Live(hist))
                    /\ \A id \in Live(hist) :
                          \E i \in 1 .. Len(value) :
                             \A f \in PersistedFields :
                                Get(value[i], f) = Get(hist[id], f)

\* A save has replaced the record of another product under the same id.
C8_Witness ==
    \E c \in Callers :
        /\ Returned(c, "save")
        /\ IsProduct(calls[c].seen)
        /\ calls[c].seen.name # calls[c].arg.name
        /\ applied[calls[c].arg.id] = calls[c].arg
        /\ \E d \in container : RecordOf(d, calls[c].arg)

NoMetadata(e) == DOMAIN e \cap MetadataFields = {} /\ DOMAIN e \subseteq EntityFields

\* C9 as stated: every value returned by getById, list and save is an entity
\* built by the conversion from the stored record the container handed back,
\* and carries no _etag or _ts.
C9_EveryResultBuiltFromRecord ==
    \A c \in Callers :
        /\ (Returned(c, "getById") /\ calls[c].result.value # Null) =>
              /\ BuiltFromRecord(calls[c].result.value, calls[c].resp.resource)
              /\ NoMetadata(calls[c].result.value)
        /\ Returned(c, "list") =>
              \A i \in 1 .. Len(calls[c].result.value) :
                 /\ BuiltFromRecord(calls[c].result.value[i],
                                    calls[c].resp.resource[i])
                 /\ NoMetadata(calls[c].result.value[i])
        /\ Returned(c, "save") =>
              /\ calls[c].resp.resource # Undefined
              /\ BuiltFromRecord(calls[c].result.value, calls[c].resp.resource)
              /\ NoMetadata(calls[c].result.value)

\* C9 amended: the values returned by getById and list, and by save when the
\* upsert response carries the stored resource, are built from that record
\* by the conversion; when the response carries no resource, save returns
\* the product it was given; no returned entity carries _etag or _ts.
C9_ResultsCarryNoMetadata ==
    \A c \in Callers :
        /\ (Returned(c, "getById") /\ calls[c].result.value # Null) =>
              /\ BuiltFromRecord(calls[c].result.value, calls[c].resp.resource)
              /\ NoMetadata(calls[c].result.value)
        /\ Returned(c, "list") =>
              \A i \in 1 .. Len(calls[c].result.value) :
                 /\ BuiltFromRecord(calls[c].result.value[i],
                                    calls[c].resp.resource[i])
                 /\ NoMetadata(calls[c].result.value[i])
        /\ Returned(c, "save") =>
              /\ IF calls[c].resp.resource # Undefined
                 THEN BuiltFromRecord(calls[c].result.value,
                                      calls[c].resp.resource)
                 ELSE calls[c].result.value = calls[c].arg
              /\ NoMetadata(calls[c].result.value)

\* A getById has returned the entity of a record that carries _etag and _ts,
\* and a save whose response carried no resource has returned its argument.
C9_Witness ==
    /\ \E c \in Callers :
          /\ Returned(c, "getById")
          /\ calls[c].result.value # Null
          /\ MetadataFields \subseteq DOMAIN calls[c].resp.resource
    /\ \E c \in Callers :
          /\ Returned(c, "save")
          /\ calls[c].resp.resource = Undefined

\* C10: a save issues one upsert of the product's complete record and no
\* read; an awaited upsert can always be served, whatever the other caller
\* does, and a served one makes save return; when two saves of the same id
\* have completed, the id's stored record is the complete record of one of
\* the two products, the one applied last, never a mix.
C10_ConcurrentSavesLastWriteWins ==
    /\ \A c \in Callers :
          (calls[c].pc # "idle" /\ calls[c].op = "save") =>
             /\ Len(calls[c].reqs) = 1
             /\ calls[c].reqs[1].kind = "upsert"
             /\ RecordOf(Json(calls[c].reqs[1].body), calls[c].arg)
             /\ calls[c].pc = "awaiting" => ENABLED CosmosUpsert(c)
             /\ (calls[c].pc = "done" /\ calls[c].resp.ok)
                   => calls[c].result.kind = "return"
    /\ \A c1, c2 \in Callers :
          (/\ c1 # c2
           /\ Returned(c1, "save") /\ Returned(c2, "save")
           /\ calls[c1].arg.id = calls[c2].arg.id)
          => LET id == calls[c1].arg.id
                 found == ItemsWithId(container, id)
             IN  /\ Cardinality(found) = 1
                 /\ applied[id] \in {calls[c1].arg, calls[c2].arg}
                 /\ \A d \in found : RecordOf(d, applied[id])

\* Two saves of different products under one id were in flight at once and
\* both have returned.
C10_Witness ==
    \E c1, c2 \in Callers :
        /\ c1 # c2
        /\ Returned(c1, "save") /\ Returned(c2, "save")
        /\ calls[c1].conc /\ calls[c2].conc
        /\ calls[c1].arg.id = calls[c2].arg.id
        /\ calls[c1].arg.name # calls[c2].arg.name
        /\ calls[c1].seen = calls[c2].arg

=============================================================================
